---------------------------- MODULE Spec2Model ----------------------------
(***************************************************************************)
(* Model of the RP2040 I2C master driver (machine_rp2040_i2c.go) and of    *)
(* the interrupt-vector installation guarded by a hardware spinlock        *)
(* (machine_rp2040_gpio.go).                                               *)
(*                                                                         *)
(* Hardware registers are the environment of the code: every read of a     *)
(* status register (IC_RAW_INTR_STAT, IC_TX_ABRT_SOURCE, IC_RXFLR) is a    *)
(* nondeterministic choice over the values the controller can show.        *)
(***************************************************************************)
EXTENDS Integers, Sequences, FiniteSets, TLC

(***************************************************************************)
(* Bounds of the model.                                                    *)
(***************************************************************************)
\* longest payload / receive buffer of a transfer call
MaxLen == 2
\* irqSetExclusiveHandler calls started per core
MaxCalls == 2

(***************************************************************************)
(* Program constants.                                                      *)
(***************************************************************************)
MHz == 1000000
\* var freqin uint32 = 125 * MHz
freqin == 125 * MHz
\* bit positions / masks of the rp device package used by the driver
I2C0_IC_DATA_CMD_RESTART_Pos == 10
I2C0_IC_DATA_CMD_STOP_Pos == 9
I2C0_IC_DATA_CMD_CMD == 256
I2C0_IC_TX_ABRT_SOURCE_ABRT_7B_ADDR_NOACK == 1
I2C0_IC_TX_ABRT_SOURCE_ABRT_TXDATA_NOACK == 8
I2C0_IC_FS_SCL_HCNT_IC_FS_SCL_HCNT_Msk == 65535
I2C0_IC_FS_SCL_LCNT_IC_FS_SCL_LCNT_Msk == 65535
I2C0_IC_SDA_HOLD_IC_SDA_RX_HOLD_Msk == 16711680
I2C0_IC_SDA_HOLD_IC_SDA_RX_HOLD_Pos == 16
I2C0_IC_COMP_PARAM_1_TX_BUFFER_DEPTH_Pos == 16
\* 1_000_000: the frequency from which the short hold time is used
FastModePlusHz == 1000000
\* divisors of the two hold-time computations
HoldDiv300ns == 10000000
HoldDiv120ns == 25000000
\* smallest legal SCL phase count
MinCnt == 8
\* addr >= 0x80 is no 7-bit address
AddrLimit == 128
\* addr & 0x78
ReservedMask == 120
\* interrupt subsystem
_NUMSPINLOCKS == 32
_NUMIRQ == 32
_PICO_SPINLOCK_ID_IRQ == 9
_NUMBANK0_GPIOS == 30
\* rp.IRQ_IO_IRQ_BANK0, the shared GPIO interrupt line
IRQ_IO_IRQ_BANK0 == 13
\* width of a register, and of the uint8 an address is narrowed to
RegBits == 32
Two8 == 256

(***************************************************************************)
(* Bit arithmetic on naturals.                                             *)
(***************************************************************************)
RECURSIVE Pow2(_)
Pow2(n) == IF n = 0 THEN 1 ELSE 2 * Pow2(n - 1)

RECURSIVE BitAnd(_, _)
BitAnd(a, b) ==
    IF a = 0 \/ b = 0 THEN 0
    ELSE (IF a % 2 = 1 /\ b % 2 = 1 THEN 1 ELSE 0) + 2 * BitAnd(a \div 2, b \div 2)

\* A 32-bit word as the set of the positions of its one bits.  The words
\* the model converts are below 2^31 (the largest integer of the checker
\* is 2^31 - 1), so positions 0..30 are read; a shift keeps positions up
\* to 31 and drops the rest, as a uint32 shift does.
BitsOf(n) == {i \in 0..(RegBits - 2) : (n \div Pow2(i)) % 2 = 1}

Shl32(bits, pos) == {i + pos : i \in {j \in bits : j + pos < RegBits}}

RECURSIVE WordOf(_)
WordOf(bits) ==
    IF bits = {} THEN 0
    ELSE LET i == CHOOSE j \in bits : TRUE IN Pow2(i) + WordOf(bits \ {i})

\* volatile.Register32.ReplaceBits(value, mask, pos):
\*   reg = reg &^ (mask << pos) | value << pos      (uint32 shifts)
ReplaceBits(reg, value, mask, pos) ==
    WordOf((BitsOf(reg) \ Shl32(BitsOf(mask), pos)) \cup Shl32(BitsOf(value), pos))

\* uint8(addr) of a uint16
uint8(a) == a % Two8

boolToBit(a) == IF a THEN 1 ELSE 0

umax32(a, b) == IF a > b THEN a ELSE b

(***************************************************************************)
(* Address validation.                                                     *)
(***************************************************************************)
isReservedI2CAddr(addr) ==
    \/ BitAnd(addr, ReservedMask) = 0
    \/ BitAnd(addr, ReservedMask) = ReservedMask

\* the guard opening tx and rx
addrRejected(addr) == addr >= AddrLimit \/ isReservedI2CAddr(addr)

quickReturn_Never(buf) == FALSE

\* tlen := len(tx); if tlen == 0 { return nil }
quickReturn(buf) == Len(buf) = 0

(***************************************************************************)
(* Framing of one command word.                                            *)
(***************************************************************************)
restartBit_EveryByte(first, restart) == boolToBit(restart)

\* boolToBit(first && i2c.restartOnNext)
restartBit(first, restart) == boolToBit(first /\ restart)

\* boolToBit(last && !nostop)
stopBit(last, ns) == boolToBit(last /\ ~ns)

\* the word written to IC_DATA_CMD; the three parts occupy disjoint bits,
\* so the bitwise or of the source is their sum
cmdWord(first, last, restart, ns, low) ==
    restartBit(first, restart) * Pow2(I2C0_IC_DATA_CMD_RESTART_Pos)
    + stopBit(last, ns) * Pow2(I2C0_IC_DATA_CMD_STOP_Pos)
    + low

(***************************************************************************)
(* Timeout switches and the restartOnNext updates.                         *)
(***************************************************************************)
\* tx: timeoutCheck := timeout != 0
txTimeoutCheck(t) == t # 0
\* rx: timeoutCheck := deadline == 0
rxTimeoutCheck(d) == d = 0

restartAfterTimeout_Kept(ns, cur) == cur

\* i2c.restartOnNext = nostop on the timeout returns
restartAfterTimeout(ns, cur) == ns

restartAfterCall_Inverted(ns, cur) == ~ns

\* i2c.restartOnNext = nostop at the end of tx and rx
restartAfterCall(ns, cur) == ns

(***************************************************************************)
(* Errors.                                                                 *)
(***************************************************************************)
\* index carried by an error that is no i2cBuffError
NoIdx == 0 - 1
Err(k) == [kind |-> k, idx |-> NoIdx]
errNil == Err("nil")
errInvalidI2CBaudrate == Err("errInvalidI2CBaudrate")
errInvalidTgtAddr == Err("errInvalidTgtAddr")
errI2CTimeout == Err("errI2CTimeout")
errI2CGeneric == Err("errI2CGeneric")
makeI2CBuffError(i) == [kind |-> "i2cBuffError", idx |-> i]

\* abort classification at the end of tx
txClassify(ab, reason, ctr) ==
    IF ~ab THEN errNil
    ELSE IF reason = 0 \/ BitAnd(reason, I2C0_IC_TX_ABRT_SOURCE_ABRT_7B_ADDR_NOACK) # 0
         THEN errI2CGeneric
         ELSE IF BitAnd(reason, I2C0_IC_TX_ABRT_SOURCE_ABRT_TXDATA_NOACK) # 0
              THEN makeI2CBuffError(ctr)   \* fallthrough
              ELSE makeI2CBuffError(ctr)   \* default

\* abort classification at the end of rx
rxClassify(ab, reason, ctr) ==
    IF ~ab THEN errNil
    ELSE IF reason = 0 \/ BitAnd(reason, I2C0_IC_TX_ABRT_SOURCE_ABRT_7B_ADDR_NOACK) # 0
         THEN errI2CGeneric
         ELSE makeI2CBuffError(ctr)

(***************************************************************************)
(* Baud-rate arithmetic of SetBaudrate.                                    *)
(***************************************************************************)
\* uint32 arithmetic.  For every br the sum freqin + br/2 is below 2^32,
\* period * 3 is at most 3 * freqin, and lcnt <= period, so none of the
\* three wraps.
periodOf(br) == (freqin + br \div 2) \div br
lcntOf(br) == (periodOf(br) * 3) \div 5
hcntOf(br) == periodOf(br) - lcntOf(br)

sdaTxHoldCntOf(br) ==
    IF br >= FastModePlusHz
    THEN ((freqin * 3) \div HoldDiv120ns) + 1
    ELSE ((freqin * 3) \div HoldDiv300ns) + 1

cntOutOfRange_Never(br) == FALSE

\* first check: out-of-range divisors
cntOutOfRange(br) ==
    \/ hcntOf(br) > I2C0_IC_FS_SCL_HCNT_IC_FS_SCL_HCNT_Msk
    \/ hcntOf(br) < MinCnt
    \/ lcntOf(br) > I2C0_IC_FS_SCL_LCNT_IC_FS_SCL_LCNT_Msk
    \/ lcntOf(br) < MinCnt

\* second check: if sdaTxHoldCnt <= lcnt-2 { return errInvalidI2CBaudrate }
\* (reached with lcnt >= 8 only, so lcnt-2 does not wrap)
holdRejected(br) == sdaTxHoldCntOf(br) <= lcntOf(br) - 2


\* values programmed by a successful SetBaudrate on top of register file t
baudTiming(br, t) ==
    [hcnt    |-> hcntOf(br),
     lcnt    |-> lcntOf(br),
     spklen  |-> umax32(1, lcntOf(br) \div 16),
     sdaHold |-> ReplaceBits(t.sdaHold, sdaTxHoldCntOf(br),
                             I2C0_IC_SDA_HOLD_IC_SDA_RX_HOLD_Msk,
                             I2C0_IC_SDA_HOLD_IC_SDA_RX_HOLD_Pos)]

\* the error SetBaudrate returns for br > 0
baudErr(br) ==
    IF cntOutOfRange(br) THEN errInvalidI2CBaudrate
    ELSE IF holdRejected(br) THEN errInvalidI2CBaudrate
    ELSE errNil

(***************************************************************************)
(* Input sets.                                                             *)
(***************************************************************************)
Bytes == {165}
\* words read from IC_DATA_CMD: the received byte, with and without a bit
\* above the low eight
RxWords == {165, 421}
Payloads == UNION {[1..n -> Bytes] : n \in 0..MaxLen}
Buffers == {[i \in 1..n |-> 0] : n \in 0..MaxLen}
\* uint8 addresses handed to tx and rx: reserved low block, valid, reserved
\* high block, and values with bit 7 set
Addrs8 == {0, 8, 120, 188}
\* uint16 addresses handed to Tx
Addrs16 == {0, 8, 120, 188, 256, 264, 32888}
AbortSources == {0, 1, 8, 9, 4096}
Timeouts == {0, 1000}
RxLevels == {0, 1, 16}
\* frequencies offered to Configure and SetBaudrate next to the transfers
I2CFreqs == {0, 1000, 100000, 5000000, 125000000}
\* frequencies of the baud-rate specification
BaudFreqs ==
    {0, 1, 1144, 1145, 1907, 1908, 50000, 100000, 400000, 999999, 1000000,
     3400000, 4166666, 4310344, 4310345, 4464285, 5000000, 6250000, 6410256,
     6578947, 6578948, 8928571, 9615384, 10000000, 15625000, 125000000,
     250000001, 2147483647}
    \cup {1000 * k : k \in 1..40}
    \cup {4000000 + 100000 * k : k \in 0..40}

\* register file of the controller after a block reset
ResetRegs ==
    [tar    |-> 85,
     timing |-> [hcnt |-> 6, lcnt |-> 13, spklen |-> 7, sdaHold |-> 1]]

VARIABLES
    \* I2C struct and controller registers
    restartOnNext, icEnable, icTar, timing,
    \* the running call: position, arguments, locals
    pc, op, addr, data, nostop, timeout, caller, pub, br,
    byteCtr, abort, abortReason,
    \* result of the call that returned last
    ret,
    \* history of the running call: command words written to IC_DATA_CMD
    \* with the byte index of each, registers written and read, restartOnNext
    \* on entry, and the index and value of the first abort source observed
    cmds, regWrites, regReads, restartOnEntry, abortAt, abortSrc,
    \* SIO spinlock _PICO_SPINLOCK_ID_IRQ: TRUE while claimed, and the core
    \* whose read claimed it
    spinlock, holder,
    \* the handlers of the vector table, by interrupt number
    vtable,
    \* per core: interrupts enabled, callback slot, GPIO enable bank, NVIC
    irqOn, pinCallbacks, intE, nvicEnabled,
    \* per core: position, running function and its caller, arguments, the
    \* interrupt state saved by lock(), calls started so far
    cpc, cfn, ccaller, num, handler, is, ncalls,
    \* per core: the events pending in the interrupt status bank, by pin, and
    \* the record of the last run of the dispatcher
    intS, disp,
    \* per core: the NVIC registers written by the last irqSet, in order
    nvicLog

hwVars == <<icEnable, icTar, timing>>
frameVars == <<op, addr, data, nostop, timeout, caller, restartOnEntry>>
localVars == <<byteCtr, abort, abortReason>>
histVars == <<cmds, regWrites, regReads, abortAt, abortSrc>>
i2cVars ==
    <<restartOnNext, icEnable, icTar, timing, pc, op, addr, data, nostop,
      timeout, caller, pub, br, byteCtr, abort, abortReason, ret, cmds,
      regWrites, regReads, restartOnEntry, abortAt, abortSrc>>

dispVars == <<intS, disp>>

irqVars ==
    <<spinlock, vtable, irqOn, pinCallbacks, intE, nvicEnabled, cpc, cfn,
      ccaller, num, handler, is, ncalls, dispVars, holder, nvicLog>>

vars == <<i2cVars, irqVars>>

\* no Tx is running
NoPub == [addr |-> 0, w |-> <<>>, rlen |-> 0, restartOnEntry |-> FALSE]

InitI2C ==
    /\ restartOnNext = FALSE
    /\ icEnable = 0
    /\ icTar = ResetRegs.tar
    /\ timing = ResetRegs.timing
    /\ pc = "idle"
    /\ op = "none" /\ addr = 0 /\ data = <<>> /\ nostop = FALSE /\ timeout = 0
    /\ caller = "direct"
    /\ pub = NoPub
    /\ br = 0
    /\ byteCtr = 0 /\ abort = FALSE /\ abortReason = 0
    /\ ret = [op |-> "none", err |-> errNil]
    /\ cmds = <<>> /\ regWrites = {} /\ regReads = {}
    /\ restartOnEntry = FALSE
    /\ abortAt = NoIdx /\ abortSrc = 0


(***************************************************************************)
(* Returning from tx / rx: to the caller of a direct call, or back into    *)
(* the phase of Tx that made the call.                                     *)
(***************************************************************************)
returnPc(o, c) ==
    IF c = "Tx" THEN (IF o = "tx" THEN "Tx_afterW" ELSE "Tx_afterR") ELSE "idle"

\* the locals byteCtr, abort and abortReason end with the call
Return(e) ==
    /\ ret' = [op |-> op, err |-> e]
    /\ pc' = returnPc(op, caller)
    /\ byteCtr' = 0 /\ abort' = FALSE /\ abortReason' = 0

(***************************************************************************)
(* Entry of tx and rx: address guard, quick return, programming of the     *)
(* target address.  o is "tx" or "rx", c the caller, w0 the register       *)
(* writes the enclosing call has made so far.                              *)
(***************************************************************************)
enter(o, a, buf, ns, t, c, w0) ==
    /\ op' = o /\ addr' = a /\ data' = buf /\ nostop' = ns /\ timeout' = t
    /\ caller' = c
    /\ restartOnEntry' = restartOnNext
    /\ cmds' = <<>> /\ regReads' = {} /\ abortAt' = NoIdx /\ abortSrc' = 0
    /\ byteCtr' = 0 /\ abort' = FALSE /\ abortReason' = 0
    /\ br' = 0
    /\ UNCHANGED <<restartOnNext, timing>>
    /\ IF addrRejected(a)
       THEN /\ ret' = [op |-> o, err |-> errInvalidTgtAddr]
            /\ pc' = returnPc(o, c)
            /\ regWrites' = w0
            /\ UNCHANGED <<icEnable, icTar>>
       ELSE IF quickReturn(buf)
       THEN /\ ret' = [op |-> o, err |-> errNil]
            /\ pc' = returnPc(o, c)
            /\ regWrites' = w0
            /\ UNCHANGED <<icEnable, icTar>>
       ELSE \* i2c.disable(); IC_TAR.Set(addr); i2c.enable()
            /\ icEnable' = 1
            /\ icTar' = a
            /\ regWrites' = w0 \cup {"IC_ENABLE", "IC_TAR"}
            /\ ret' = [op |-> o, err |-> Err("pending")]
            /\ pc' = IF o = "tx" THEN "tx_loop" ELSE "rx_loop"

\* func (i2c *I2C) tx(addr uint8, tx []byte, nostop bool, timeout int64)
tx(a, w, ns, t) ==
    /\ UNCHANGED irqVars
    /\ pc = "idle"
    /\ enter("tx", a, w, ns, t, "direct", {})
    /\ pub' = NoPub

\* func (i2c *I2C) rx(addr uint8, rx []byte, nostop bool, deadline int64)
rx(a, r, ns, d) ==
    /\ UNCHANGED irqVars
    /\ pc = "idle"
    /\ enter("rx", a, r, ns, d, "direct", {})
    /\ pub' = NoPub

(***************************************************************************)
(* The byte loop of tx.                                                    *)
(***************************************************************************)
\* IC_DATA_CMD.Set(restart | stop | tx[byteCtr])
txWrite ==
    /\ UNCHANGED irqVars
    /\ pc = "tx_loop"
    /\ byteCtr < Len(data)
    /\ cmds' = Append(cmds, [idx  |-> byteCtr,
                              word |-> cmdWord(byteCtr = 0, byteCtr = Len(data) - 1,
                                               restartOnNext, nostop,
                                               data[byteCtr + 1])])
    /\ regWrites' = regWrites \cup {"IC_DATA_CMD"}
    /\ pc' = "tx_pollEmpty"
    /\ UNCHANGED <<restartOnNext, hwVars, frameVars, localVars, pub, br, ret,
                   regReads, abortAt, abortSrc>>

\* for IC_RAW_INTR_STAT & TX_EMPTY != 0 { if timeoutCheck { ...return } }
txPollEmpty ==
    /\ UNCHANGED irqVars
    /\ pc = "tx_pollEmpty"
    /\ regReads' = regReads \cup {"IC_RAW_INTR_STAT"}
    /\ \E bitSet \in BOOLEAN :
         IF bitSet
         THEN IF txTimeoutCheck(timeout)
              THEN /\ restartOnNext' = restartAfterTimeout(nostop, restartOnNext)
                   /\ Return(errI2CTimeout)
              ELSE UNCHANGED <<restartOnNext, pc, ret, localVars>>
         ELSE /\ pc' = "tx_abrt"
              /\ UNCHANGED <<restartOnNext, ret, localVars>>
    /\ UNCHANGED <<hwVars, frameVars, pub, br, cmds, regWrites,
                   abortAt, abortSrc>>

\* abortReason = IC_TX_ABRT_SOURCE.Get(); if abortReason != 0 { clear; abort = true }
\* then either the wait for STOP_DET or the next byte
txAbrt ==
    /\ UNCHANGED irqVars
    /\ pc = "tx_abrt"
    /\ \E src \in AbortSources :
         /\ abortReason' = src
         /\ abort' = (abort \/ src # 0)
         /\ regReads' = regReads \cup {"IC_TX_ABRT_SOURCE"}
                          \cup (IF src # 0 THEN {"IC_CLR_TX_ABRT"} ELSE {})
         /\ IF src # 0 /\ abortAt = NoIdx
            THEN abortAt' = byteCtr /\ abortSrc' = src
            ELSE UNCHANGED <<abortAt, abortSrc>>
         /\ IF abort' \/ (byteCtr = Len(data) - 1 /\ ~nostop)
            THEN pc' = "tx_pollStop" /\ byteCtr' = byteCtr
            ELSE pc' = "tx_loop" /\ byteCtr' = byteCtr + 1
    /\ UNCHANGED <<restartOnNext, hwVars, frameVars, pub, br, ret, cmds, regWrites>>

\* for IC_RAW_INTR_STAT & STOP_DET != 0 { if timeoutCheck { ...return } }
\* IC_CLR_STOP_DET.Get(); byteCtr++
txPollStop ==
    /\ UNCHANGED irqVars
    /\ pc = "tx_pollStop"
    /\ \E bitSet \in BOOLEAN :
         IF bitSet
         THEN /\ regReads' = regReads \cup {"IC_RAW_INTR_STAT"}
              /\ IF txTimeoutCheck(timeout)
                 THEN /\ restartOnNext' = restartAfterTimeout(nostop, restartOnNext)
                      /\ Return(errI2CTimeout)
                 ELSE UNCHANGED <<restartOnNext, pc, ret, localVars>>
         ELSE /\ regReads' = regReads \cup {"IC_RAW_INTR_STAT", "IC_CLR_STOP_DET"}
              /\ byteCtr' = byteCtr + 1
              /\ pc' = "tx_loop"
              /\ UNCHANGED <<restartOnNext, ret, abort, abortReason>>
    /\ UNCHANGED <<hwVars, frameVars, pub, br, cmds,
                   regWrites, abortAt, abortSrc>>

\* after the loop: classify the abort, i2c.restartOnNext = nostop, return err
txReturn ==
    /\ UNCHANGED irqVars
    /\ pc = "tx_loop"
    /\ byteCtr >= Len(data)
    /\ restartOnNext' = restartAfterCall(nostop, restartOnNext)
    /\ Return(txClassify(abort, abortReason, byteCtr))
    /\ UNCHANGED <<hwVars, frameVars, pub, br, histVars>>

(***************************************************************************)
(* The byte loop of rx.                                                    *)
(***************************************************************************)
\* writeAvailable(): TX_BUFFER_DEPTH_Pos - IC_RXFLR.Get()
\* (IC_RXFLR is at most the FIFO depth, 16, so the difference does not wrap)
writeAvailable(level) == I2C0_IC_COMP_PARAM_1_TX_BUFFER_DEPTH_Pos - level

\* for i2c.writeAvailable() == 0 {}; IC_DATA_CMD.Set(restart | stop | CMD)
rxWrite ==
    /\ UNCHANGED irqVars
    /\ pc = "rx_loop"
    /\ byteCtr < Len(data)
    /\ regReads' = regReads \cup {"IC_RXFLR"}
    /\ \E level \in RxLevels :
         IF writeAvailable(level) = 0
         THEN UNCHANGED <<cmds, regWrites, pc>>
         ELSE /\ cmds' = Append(cmds, [idx  |-> byteCtr,
                                        word |-> cmdWord(byteCtr = 0,
                                                         byteCtr = Len(data) - 1,
                                                         restartOnNext, nostop,
                                                         I2C0_IC_DATA_CMD_CMD)])
              /\ regWrites' = regWrites \cup {"IC_DATA_CMD"}
              /\ pc' = "rx_poll"
    /\ UNCHANGED <<restartOnNext, hwVars, frameVars, localVars, pub, br, ret,
                   abortAt, abortSrc>>

\* for i2c.readAvailable() == 0 && !abort { sample abort source; timeout check }
\* if abort { break }; rx[byteCtr] = uint8(IC_DATA_CMD.Get()); byteCtr++
rxPoll ==
    /\ UNCHANGED irqVars
    /\ pc = "rx_poll"
    /\ \E level \in RxLevels, src \in AbortSources, b \in RxWords :
         IF level = 0 /\ ~abort
         THEN \* loop body
              /\ regReads' = regReads \cup {"IC_RXFLR", "IC_TX_ABRT_SOURCE"}
              /\ IF src # 0
                 THEN abortAt' = byteCtr /\ abortSrc' = src
                 ELSE UNCHANGED <<abortAt, abortSrc>>
              /\ IF rxTimeoutCheck(timeout)
                 THEN /\ restartOnNext' = restartAfterTimeout(nostop, restartOnNext)
                      /\ Return(errI2CTimeout)
                 ELSE /\ abortReason' = src
                      /\ abort' = (src # 0)
                      /\ UNCHANGED <<restartOnNext, pc, ret, byteCtr>>
              /\ UNCHANGED data
         ELSE IF abort
         THEN \* loop left with abort set: break
              /\ pc' = "rx_break"
              /\ regReads' = regReads \cup {"IC_RXFLR"}
              /\ UNCHANGED <<restartOnNext, ret, data, localVars, abortAt, abortSrc>>
         ELSE \* a byte is available
              /\ data' = [data EXCEPT ![byteCtr + 1] = uint8(b)]
              /\ byteCtr' = byteCtr + 1
              /\ regReads' = regReads \cup {"IC_RXFLR", "IC_DATA_CMD"}
              /\ pc' = "rx_loop"
              /\ UNCHANGED <<restartOnNext, ret, abort, abortReason, abortAt, abortSrc>>
    /\ UNCHANGED <<hwVars, op, addr, nostop, timeout, caller, restartOnEntry, pub, br, cmds, regWrites>>

\* after the loop or the break: classify, i2c.restartOnNext = nostop, return err
rxReturn ==
    /\ UNCHANGED irqVars
    /\ \/ pc = "rx_loop" /\ byteCtr >= Len(data)
       \/ pc = "rx_break"
    /\ restartOnNext' = restartAfterCall(nostop, restartOnNext)
    /\ Return(rxClassify(abort, abortReason, byteCtr))
    /\ UNCHANGED <<hwVars, frameVars, pub, br, histVars>>

(***************************************************************************)
(* func (i2c *I2C) Tx(addr uint16, w, r []byte) error                      *)
(***************************************************************************)
TxReturn(e) ==
    /\ ret' = [op |-> "Tx", err |-> e]
    /\ pc' = "idle"
    /\ UNCHANGED <<restartOnNext, hwVars, frameVars, localVars, br, histVars>>

\* the read phase: if len(r) > 0 { i2c.rx(uint8(addr), r, false, 0) }
TxReadPhase(a16, r, w0) ==
    IF Len(r) > 0
    THEN enter("rx", uint8(a16), r, FALSE, 0, "Tx", w0)
    ELSE /\ ret' = [op |-> "Tx", err |-> errNil]
         /\ pc' = "idle"
         /\ regWrites' = w0
         /\ br' = 0
         /\ UNCHANGED <<restartOnNext, hwVars, frameVars, localVars, cmds,
                        regReads, abortAt, abortSrc>>

Tx(a16, w, r) ==
    /\ UNCHANGED irqVars
    /\ pc = "idle"
    /\ pub' = [addr |-> a16, w |-> w, rlen |-> Len(r), restartOnEntry |-> restartOnNext]
    /\ IF Len(w) > 0
       THEN enter("tx", uint8(a16), w, FALSE, 0, "Tx", {})
       ELSE TxReadPhase(a16, r, {})

\* the write phase has returned
TxAfterW ==
    /\ UNCHANGED irqVars
    /\ pc = "Tx_afterW"
    /\ UNCHANGED pub
    /\ IF ret.err # errNil
       THEN TxReturn(ret.err)
       ELSE TxReadPhase(pub.addr, [i \in 1..pub.rlen |-> 0], regWrites)

\* the read phase has returned
TxAfterR ==
    /\ UNCHANGED irqVars
    /\ pc = "Tx_afterR"
    /\ UNCHANGED pub
    /\ TxReturn(ret.err)

(***************************************************************************)
(* SetBaudrate and Configure.                                              *)
(***************************************************************************)
\* a call that is neither tx nor rx leaves no transfer behind it
noTransfer(o) ==
    /\ op' = o /\ addr' = 0 /\ data' = <<>> /\ nostop' = FALSE /\ timeout' = 0
    /\ caller' = "direct" /\ pub' = NoPub
    /\ restartOnEntry' = restartOnNext
    /\ byteCtr' = 0 /\ abort' = FALSE /\ abortReason' = 0
    /\ cmds' = <<>> /\ regReads' = {} /\ abortAt' = NoIdx /\ abortSrc' = 0

SetBaudrate(f) ==
    /\ UNCHANGED irqVars
    /\ pc = "idle"
    /\ br' = f
    /\ noTransfer("SetBaudrate")
    /\ IF f = 0
       THEN \* period := (freqin + br/2) / br panics
            /\ pc' = "panic"
            /\ ret' = [op |-> "SetBaudrate", err |-> Err("panic: divide by zero")]
            /\ regWrites' = {}
            /\ UNCHANGED <<timing, icEnable>>
       ELSE /\ pc' = "idle"
            /\ ret' = [op |-> "SetBaudrate", err |-> baudErr(f)]
            /\ IF baudErr(f) = errNil
               THEN /\ timing' = baudTiming(f, timing)
                    /\ icEnable' = 1
                    /\ regWrites' = {"IC_ENABLE", "IC_CON", "IC_FS_SCL_HCNT",
                                     "IC_FS_SCL_LCNT", "IC_FS_SPKLEN", "IC_SDA_HOLD"}
               ELSE /\ regWrites' = {}
                    /\ UNCHANGED <<timing, icEnable>>
    /\ UNCHANGED <<restartOnNext, icTar>>

\* Configure -> init: reset(), disable(), restartOnNext = false, IC_CON,
\* IC_TX_TL, IC_RX_TL, IC_DMA_CR, then SetBaudrate(config.Frequency)
Configure(f) ==
    /\ UNCHANGED irqVars
    /\ pc = "idle"
    /\ restartOnNext' = FALSE
    /\ icTar' = ResetRegs.tar
    /\ br' = f
    /\ noTransfer("Configure")
    /\ IF f = 0
       THEN /\ pc' = "panic"
            /\ ret' = [op |-> "Configure", err |-> Err("panic: divide by zero")]
            /\ timing' = ResetRegs.timing
            /\ icEnable' = 0
            /\ regWrites' = {"IC_ENABLE", "IC_CON", "IC_TX_TL", "IC_RX_TL", "IC_DMA_CR"}
       ELSE /\ pc' = "idle"
            /\ ret' = [op |-> "Configure", err |-> baudErr(f)]
            /\ IF baudErr(f) = errNil
               THEN /\ timing' = baudTiming(f, ResetRegs.timing)
                    /\ icEnable' = 1
                    /\ regWrites' = {"IC_ENABLE", "IC_CON", "IC_TX_TL", "IC_RX_TL",
                                     "IC_DMA_CR", "IC_FS_SCL_HCNT", "IC_FS_SCL_LCNT",
                                     "IC_FS_SPKLEN", "IC_SDA_HOLD"}
               ELSE /\ timing' = ResetRegs.timing
                    /\ icEnable' = 0
                    /\ regWrites' = {"IC_ENABLE", "IC_CON", "IC_TX_TL", "IC_RX_TL",
                                     "IC_DMA_CR"}

(***************************************************************************)
(* Interrupt installation: two cores, one SIO spinlock, one vector table.  *)
(***************************************************************************)
Cores == {0, 1}
\* no core holds the spinlock
NoCore == "none"
nil == "nil"
Handlers == {"gpioirqHandler", "otherHandler"}
\* interrupt numbers offered to the calls: the GPIO line and one out of range
IrqNums == {IRQ_IO_IRQ_BANK0, _NUMIRQ}
VtLines == {n \in IrqNums : n < _NUMIRQ}
\* interrupt numbers offered to irqSet: first, GPIO, last, and two out of range
IrqSetNums == {0, IRQ_IO_IRQ_BANK0, _NUMIRQ - 1, _NUMIRQ, _NUMIRQ + 8}
Pins == {2, 5}
Changes == {"PinRising"}
Callbacks == {"cbA", "cbB"}
\* pins whose events the hardware raises, in two status registers
GpioPins == {2, 5, 11}
\* event bit raised, of the four of a pin: edge low
EventBits == {4}
NoDisp == [pin |-> NoIdx, change |-> 0, callback |-> nil, calls |-> 0]

InitIRQ ==
    /\ spinlock = FALSE
    /\ holder = NoCore
    /\ nvicLog = [c \in Cores |-> <<>>]
    /\ vtable = [n \in VtLines |-> nil]
    /\ irqOn \in [Cores -> BOOLEAN]
    /\ pinCallbacks = [c \in Cores |-> nil]
    /\ intE = [c \in Cores |-> {}]
    /\ nvicEnabled = [c \in Cores |-> {}]
    /\ cpc = [c \in Cores |-> "idle"]
    /\ cfn = [c \in Cores |-> "none"]
    /\ ccaller = [c \in Cores |-> "direct"]
    /\ num = [c \in Cores |-> 0]
    /\ handler = [c \in Cores |-> nil]
    /\ is = [c \in Cores |-> TRUE]
    /\ ncalls = [c \in Cores |-> 0]
    /\ intS = [c \in Cores |-> [p \in GpioPins |-> 0]]
    /\ disp = [c \in Cores |-> NoDisp]

\* the whole system after start-up, interrupts enabled or not on each core
Init ==
    /\ InitI2C
    /\ InitIRQ

\* the same with interrupts enabled, for the specifications of the bus driver
InitBus ==
    /\ InitI2C
    /\ InitIRQ
    /\ irqOn = [c \in Cores |-> TRUE]

(***************************************************************************)
(* The SIO spinlock register (lock.reg, at SIO_Offset +                    *)
(* SIO_SPINLOCK0_OFFSET + 4*lockID).  A read of the register claims the    *)
(* lock when it is free and then returns a non-zero value; a read of a     *)
(* claimed lock returns 0.  A write of any value releases the lock.        *)
(***************************************************************************)
spinlockGet(claimed) ==
    [value |-> IF claimed THEN 0 ELSE Pow2(_PICO_SPINLOCK_ID_IRQ), claimed |-> TRUE]

\* lock.reg.Set(0)
spinlockSet(v) == FALSE

\* for lock.reg.Get() != 0 { }: the loop goes on while the value read is not 0
lockLoopGoesOn(value) == value # 0

(***************************************************************************)
(* irqSetExclusiveHandler, lines 403-419: entry.                           *)
(* lock.init(_PICO_SPINLOCK_ID_IRQ); is := interrupt.Disable()             *)
(***************************************************************************)
lockEnter(c, fn, n, h, from) ==
    /\ cfn' = [cfn EXCEPT ![c] = fn]
    /\ ccaller' = [ccaller EXCEPT ![c] = from]
    /\ num' = [num EXCEPT ![c] = n]
    /\ handler' = [handler EXCEPT ![c] = h]
    /\ IF _PICO_SPINLOCK_ID_IRQ >= _NUMSPINLOCKS
       THEN \* panic("spinlocknum >= 32")
            /\ cpc' = [cpc EXCEPT ![c] = "halted"]
            /\ UNCHANGED <<is, irqOn>>
       ELSE /\ is' = [is EXCEPT ![c] = irqOn[c]]
            /\ irqOn' = [irqOn EXCEPT ![c] = FALSE]
            /\ cpc' = [cpc EXCEPT ![c] = "lock_spin"]

irqSetExclusiveHandler(c, n, h) ==
    /\ cpc[c] = "idle"
    /\ ncalls[c] < MaxCalls
    /\ ncalls' = [ncalls EXCEPT ![c] = @ + 1]
    /\ IF n >= _NUMIRQ
       THEN \* panic(ErrInvalidInputPin)
            /\ cpc' = [cpc EXCEPT ![c] = "halted"]
            /\ cfn' = [cfn EXCEPT ![c] = "irqSetExclusiveHandler"]
            /\ ccaller' = [ccaller EXCEPT ![c] = "direct"]
            /\ num' = [num EXCEPT ![c] = n]
            /\ handler' = [handler EXCEPT ![c] = h]
            /\ UNCHANGED <<is, irqOn>>
       ELSE lockEnter(c, "irqSetExclusiveHandler", n, h, "direct")
    /\ UNCHANGED <<spinlock, holder, vtable, pinCallbacks, intE, nvicEnabled, nvicLog>>
    /\ UNCHANGED <<i2cVars, dispVars>>

\* irqSetExclusiveHandler, lines 295-307: out-of-range numbers return
irqSetExclusiveHandler_setHandler(c, n, h) ==
    /\ cpc[c] = "idle"
    /\ ncalls[c] < MaxCalls
    /\ ncalls' = [ncalls EXCEPT ![c] = @ + 1]
    /\ IF n >= _NUMIRQ
       THEN UNCHANGED <<cpc, cfn, ccaller, num, handler, is, irqOn>>
       ELSE lockEnter(c, "irqSetExclusiveHandler_setHandler", n, h, "direct")
    /\ UNCHANGED <<spinlock, holder, vtable, pinCallbacks, intE, nvicEnabled, nvicLog>>
    /\ UNCHANGED <<i2cVars, dispVars>>

\* Pin.setIRQ: p.setInterrupt(change, true); pinCallbacks[core] = callback;
\* then irqSetExclusiveHandler(IRQ_IO_IRQ_BANK0, gpioirqHandler)
setInterrupt(bank, p, change) == bank \cup {<<p, change>>}

setCallback_Skipped(slot, callback) == slot

\* pinCallbacks[CurrentCore()] = callback
setCallback(slot, callback) == callback

setIRQ(c, p, change, callback) ==
    /\ cpc[c] = "idle"
    /\ ncalls[c] < MaxCalls
    /\ ncalls' = [ncalls EXCEPT ![c] = @ + 1]
    /\ intE' = [intE EXCEPT ![c] = setInterrupt(@, p, change)]
    /\ pinCallbacks' = [pinCallbacks EXCEPT ![c] = setCallback(@, callback)]
    /\ IF IRQ_IO_IRQ_BANK0 >= _NUMIRQ
       THEN /\ cpc' = [cpc EXCEPT ![c] = "halted"]
            /\ UNCHANGED <<cfn, ccaller, num, handler, is, irqOn>>
       ELSE lockEnter(c, "irqSetExclusiveHandler", IRQ_IO_IRQ_BANK0,
                      "gpioirqHandler", "setIRQ")
    /\ UNCHANGED <<spinlock, holder, vtable, nvicEnabled, nvicLog>>
    /\ UNCHANGED <<i2cVars, dispVars>>

(***************************************************************************)
(* spinLock.lock: one pass of the loop per step.                           *)
(***************************************************************************)
lockSpin(c) ==
    /\ cpc[c] = "lock_spin"
    /\ LET got == spinlockGet(spinlock) IN
         /\ spinlock' = got.claimed
         /\ holder' = IF spinlock THEN holder ELSE c
         /\ IF lockLoopGoesOn(got.value)
            THEN UNCHANGED cpc
            ELSE \* memFenceAcquire(); return is
                 cpc' = [cpc EXCEPT ![c] = IF cfn[c] = "irqSetExclusiveHandler"
                                           THEN "locked" ELSE "set"]
    /\ UNCHANGED <<vtable, irqOn, pinCallbacks, intE, nvicEnabled, nvicLog, cfn, ccaller,
                   num, handler, is, ncalls>>
    /\ UNCHANGED <<i2cVars, dispVars>>

\* current := getVtableHandler(num); if current != nil { panic(...) }
occupied(current, h) == current # nil

getCurrent(c) ==
    /\ cpc[c] = "locked"
    /\ cpc' = [cpc EXCEPT ![c] = IF occupied(vtable[num[c]], handler[c])
                                 THEN "halted" ELSE "set"]
    /\ UNCHANGED <<spinlock, holder, vtable, irqOn, pinCallbacks, intE, nvicEnabled, nvicLog, cfn,
                   ccaller, num, handler, is, ncalls>>
    /\ UNCHANGED <<i2cVars, dispVars>>

\* setVtableHandler / setHandler: getVtable()[16+num] = handler
setVtableHandler(c) ==
    /\ cpc[c] = "set"
    /\ vtable' = [vtable EXCEPT ![num[c]] = handler[c]]
    /\ cpc' = [cpc EXCEPT ![c] = "unlock"]
    /\ UNCHANGED <<spinlock, holder, irqOn, pinCallbacks, intE, nvicEnabled, nvicLog, cfn, ccaller,
                   num, handler, is, ncalls>>
    /\ UNCHANGED <<i2cVars, dispVars>>

\* spinLock.unlock: memFenceRelease(); lock.reg.Set(0)
unlockClear(c) ==
    /\ cpc[c] = "unlock"
    /\ spinlock' = spinlockSet(0)
    /\ holder' = NoCore
    /\ cpc' = [cpc EXCEPT ![c] = "restore"]
    /\ UNCHANGED <<vtable, irqOn, pinCallbacks, intE, nvicEnabled, nvicLog, cfn, ccaller,
                   num, handler, is, ncalls>>
    /\ UNCHANGED <<i2cVars, dispVars>>

\* the arguments and locals of a call end with it
endCall(c) ==
    /\ cfn' = [cfn EXCEPT ![c] = "none"]
    /\ ccaller' = [ccaller EXCEPT ![c] = "direct"]
    /\ num' = [num EXCEPT ![c] = 0]
    /\ handler' = [handler EXCEPT ![c] = nil]
    /\ is' = [is EXCEPT ![c] = TRUE]

interruptRestore_Enable(state) == TRUE

\* interrupt.Restore(is): interrupts are enabled iff the saved state says so
interruptRestore(state) == state

\* spinLock.unlock: interrupt.Restore(is); irqSetExclusiveHandler returns
unlockRestore(c) ==
    /\ cpc[c] = "restore"
    /\ irqOn' = [irqOn EXCEPT ![c] = interruptRestore(is[c])]
    /\ cpc' = [cpc EXCEPT ![c] = IF ccaller[c] = "setIRQ" THEN "irqSet" ELSE "idle"]
    /\ IF ccaller[c] = "setIRQ"
       THEN /\ cfn' = [cfn EXCEPT ![c] = "setIRQ"]
            /\ UNCHANGED <<ccaller, num, handler, is>>
       ELSE endCall(c)
    /\ UNCHANGED <<spinlock, holder, vtable, pinCallbacks, intE, nvicEnabled, nvicLog, ncalls>>
    /\ UNCHANGED <<i2cVars, dispVars>>

(***************************************************************************)
(* irqSet and irqSetMask.  A mask is the set of its bit positions, and the *)
(* interrupt lines enabled on a core are the bits set in its NVIC enable   *)
(* register.                                                               *)
(***************************************************************************)
nvicWrite(reg, mask) == [reg |-> reg, mask |-> mask]

irqSetMask_EnableFirst(en, mask, enabled) ==
    IF enabled
    THEN [writes  |-> <<nvicWrite("NVIC_ISER", mask), nvicWrite("NVIC_ICPR", mask)>>,
          enabled |-> en \cup mask]
    ELSE [writes  |-> <<nvicWrite("NVIC_ICER", mask)>>,
          enabled |-> en \ mask]

\* irqSetMask(mask, enabled) on a core whose enabled lines are en
irqSetMask(en, mask, enabled) ==
    IF enabled
    THEN \* NVIC_ICPR.Set(mask); NVIC_ISER.Set(mask)
         [writes  |-> <<nvicWrite("NVIC_ICPR", mask), nvicWrite("NVIC_ISER", mask)>>,
          enabled |-> en \cup mask]
    ELSE \* NVIC_ICER.Set(mask)
         [writes  |-> <<nvicWrite("NVIC_ICER", mask)>>,
          enabled |-> en \ mask]

\* the word 1 that irqSet shifts: 1<<num
irqSetOne == BitsOf(1)

\* irqSet(num, enabled): if num >= _NUMIRQ { return }; irqSetMask(1<<num, enabled)
irqSetResult(en, n, enabled) ==
    IF n >= _NUMIRQ
    THEN [writes |-> <<>>, enabled |-> en]
    ELSE irqSetMask(en, Shl32(irqSetOne, n), enabled)

\* irqSet called on its own
irqSetCall(c, n, enabled) ==
    /\ cpc[c] = "idle"
    /\ LET done == irqSetResult(nvicEnabled[c], n, enabled) IN
         /\ nvicEnabled' = [nvicEnabled EXCEPT ![c] = done.enabled]
         /\ nvicLog' = [nvicLog EXCEPT ![c] = done.writes]
    /\ num' = [num EXCEPT ![c] = n]
    /\ cfn' = [cfn EXCEPT ![c] = IF enabled THEN "irqSet_on" ELSE "irqSet_off"]
    /\ UNCHANGED <<spinlock, holder, vtable, irqOn, pinCallbacks, intE, cpc, ccaller,
                   handler, is, ncalls>>
    /\ UNCHANGED <<i2cVars, dispVars>>

\* the tail of setIRQ: irqSet(IRQ_IO_IRQ_BANK0, true)
irqSet(c) ==
    /\ cpc[c] = "irqSet"
    /\ nvicEnabled' = [nvicEnabled EXCEPT ![c] =
                         irqSetResult(@, IRQ_IO_IRQ_BANK0, TRUE).enabled]
    /\ nvicLog' = [nvicLog EXCEPT ![c] =
                     irqSetResult(nvicEnabled[c], IRQ_IO_IRQ_BANK0, TRUE).writes]
    /\ cpc' = [cpc EXCEPT ![c] = "idle"]
    /\ endCall(c)
    /\ UNCHANGED <<spinlock, holder, vtable, irqOn, pinCallbacks, intE, ncalls>>
    /\ UNCHANGED <<i2cVars, dispVars>>

(***************************************************************************)
(* The GPIO dispatcher, gpioirqHandler.                                    *)
(***************************************************************************)
\* the hardware raises an event of pin p in the status bank of core c
pinEvent(c, p, e) ==
    /\ BitAnd(intS[c][p], e) = 0
    /\ intS' = [intS EXCEPT ![c][p] = @ + e]
    /\ UNCHANGED <<spinlock, holder, vtable, irqOn, pinCallbacks, intE, nvicEnabled, nvicLog, cpc,
                   cfn, ccaller, num, handler, is, ncalls, disp>>
    /\ UNCHANGED i2cVars

RECURSIVE statusWord(_, _, _)
\* base.intS[reg].Get(): eight pins to a register, four bits to a pin
statusWord(st, reg, pins) ==
    IF pins = {} THEN 0
    ELSE LET p == CHOOSE q \in pins : TRUE IN
         (IF p \div 8 = reg THEN st[p] * Pow2(4 * (p % 8)) ELSE 0)
           + statusWord(st, reg, pins \ {p})

\* the events of one pin in the word of its status register
getIntChange(gpio, status) == (status \div Pow2(4 * (gpio % 8))) % 16

\* write-clear of the acknowledged events of one pin
acknowledgeInterrupt(st, gpio, change) ==
    IF gpio \in DOMAIN st
    THEN [st EXCEPT ![gpio] = @ - BitAnd(@, change)]
    ELSE st

\* the pins the scan of the dispatcher finds pending, gpio = 0 .. 29
pendingPins(st) ==
    LET statreg == [reg \in 0..((_NUMBANK0_GPIOS - 1) \div 8) |->
                      statusWord(st, reg, DOMAIN st)]
    IN  {gpio \in 0..(_NUMBANK0_GPIOS - 1) :
            getIntChange(gpio, statreg[gpio \div 8]) # 0}

firstPending_Last(st) ==
    LET pp == pendingPins(st)
    IN  IF pp = {} THEN NoIdx ELSE CHOOSE g \in pp : \A h \in pp : g >= h

\* the first of them in the order of the scan
firstPending(st) ==
    LET pp == pendingPins(st)
    IN  IF pp = {} THEN NoIdx ELSE CHOOSE g \in pp : \A h \in pp : g <= h

hasCallback_Always(callback) == TRUE

\* callback := pinCallbacks[core]; if callback != nil
hasCallback(callback) == callback # nil

\* the body of gpioirqHandler run on core c
gpioirqScan(c) ==
    /\ LET gpio == firstPending(intS[c])
           change == getIntChange(gpio, statusWord(intS[c], gpio \div 8, GpioPins))
       IN IF gpio = NoIdx
          THEN \* panic("gpio INT status not found")
               /\ cpc' = [cpc EXCEPT ![c] = "halted"]
               /\ disp' = [disp EXCEPT ![c] = NoDisp]
               /\ UNCHANGED intS
          ELSE /\ intS' = [intS EXCEPT ![c] = acknowledgeInterrupt(@, gpio, change)]
               /\ IF hasCallback(pinCallbacks[c])
                  THEN \* callback(gpio); return
                       /\ disp' = [disp EXCEPT ![c] =
                                     [pin |-> gpio, change |-> change,
                                      callback |-> pinCallbacks[c], calls |-> 1]]
                       /\ UNCHANGED cpc
                  ELSE \* panic("unset callback in handler")
                       /\ disp' = [disp EXCEPT ![c] =
                                     [pin |-> gpio, change |-> change,
                                      callback |-> nil, calls |-> 0]]
                       /\ cpc' = [cpc EXCEPT ![c] = "halted"]
    /\ UNCHANGED <<spinlock, holder, vtable, irqOn, pinCallbacks, intE, nvicEnabled, nvicLog,
                   cfn, ccaller, num, handler, is, ncalls>>
    /\ UNCHANGED i2cVars

\* gpioirqHandler entered while the core runs no other call of the model
gpioirqHandler(c) ==
    /\ cpc[c] = "idle"
    /\ gpioirqScan(c)

\* gpioirqHandler entered by the NVIC of core c: the core takes interrupts,
\* the GPIO line is enabled in its NVIC and the vector-table slot of the line
\* holds the dispatcher; the interrupted call resumes when it returns
gpioirqDelivered(c) ==
    /\ cpc[c] # "halted"
    /\ irqOn[c]
    /\ IRQ_IO_IRQ_BANK0 \in nvicEnabled[c]
    /\ vtable[IRQ_IO_IRQ_BANK0] = "gpioirqHandler"
    /\ gpioirqScan(c)

(***************************************************************************)
(* Specifications.                                                         *)
(***************************************************************************)
\* the transfer engine: tx and rx called directly, and through Tx
NextI2C ==
    \/ \E a \in Addrs8, w \in Payloads, ns \in BOOLEAN, t \in Timeouts : tx(a, w, ns, t)
    \/ txWrite
    \/ txPollEmpty
    \/ txAbrt
    \/ txPollStop
    \/ txReturn
    \/ \E a \in Addrs8, r \in Buffers, ns \in BOOLEAN, d \in Timeouts : rx(a, r, ns, d)
    \/ rxWrite
    \/ rxPoll
    \/ rxReturn
    \/ \E a \in Addrs16, w \in Payloads, r \in Buffers : Tx(a, w, r)
    \/ TxAfterW
    \/ TxAfterR

SpecI2C == InitBus /\ [][NextI2C]_vars

\* the public operations: Configure, SetBaudrate, Tx
NextPublic ==
    \/ \E f \in I2CFreqs : Configure(f)
    \/ \E f \in I2CFreqs : SetBaudrate(f)
    \/ \E a \in Addrs16, w \in Payloads, r \in Buffers : Tx(a, w, r)
    \/ txWrite
    \/ txPollEmpty
    \/ txAbrt
    \/ txPollStop
    \/ txReturn
    \/ rxWrite
    \/ rxPoll
    \/ rxReturn
    \/ TxAfterW
    \/ TxAfterR

SpecPublic == InitBus /\ [][NextPublic]_vars

\* SetBaudrate alone, over a wide set of frequencies
NextBaud == \E f \in BaudFreqs : SetBaudrate(f)

SpecBaud == InitBus /\ [][NextBaud]_vars

\* the interrupt subsystem on the two cores
NextIRQ ==
    \/ \E c \in Cores, n \in IrqNums, h \in Handlers : irqSetExclusiveHandler(c, n, h)
    \/ \E c \in Cores, n \in IrqNums, h \in Handlers :
         irqSetExclusiveHandler_setHandler(c, n, h)
    \/ \E c \in Cores, p \in Pins, ch \in Changes, cb \in Callbacks : setIRQ(c, p, ch, cb)
    \/ \E c \in Cores : lockSpin(c)
    \/ \E c \in Cores : getCurrent(c)
    \/ \E c \in Cores : setVtableHandler(c)
    \/ \E c \in Cores : unlockClear(c)
    \/ \E c \in Cores : unlockRestore(c)
    \/ \E c \in Cores : irqSet(c)

SpecIRQ == Init /\ [][NextIRQ]_vars

\* a core that has entered a call goes on executing it
callStep(c) ==
    \/ lockSpin(c)
    \/ getCurrent(c)
    \/ setVtableHandler(c)
    \/ unlockClear(c)
    \/ unlockRestore(c)
    \/ irqSet(c)

\* the interrupt subsystem with the two cores scheduled fairly
SpecIRQFair == Init /\ [][NextIRQ]_vars /\ \A c \in Cores : WF_vars(callStep(c))

\* the same calls made from core 0 alone, one after the other
NextIRQCore0 ==
    \/ \E n \in IrqNums, h \in Handlers : irqSetExclusiveHandler(0, n, h)
    \/ \E n \in IrqNums, h \in Handlers : irqSetExclusiveHandler_setHandler(0, n, h)
    \/ \E p \in Pins, ch \in Changes, cb \in Callbacks : setIRQ(0, p, ch, cb)
    \/ lockSpin(0)
    \/ getCurrent(0)
    \/ setVtableHandler(0)
    \/ unlockClear(0)
    \/ unlockRestore(0)
    \/ irqSet(0)

SpecIRQCore0 == Init /\ [][NextIRQCore0]_vars

\* irqSet called on its own on the two cores
NextNVIC == \E c \in Cores, n \in IrqSetNums, en \in BOOLEAN : irqSetCall(c, n, en)

SpecNVIC == Init /\ [][NextNVIC]_vars

\* each core registers pin 2 with cbA and then pin 5 with cbB
NextTwoPins ==
    \/ \E c \in Cores : intE[c] = {} /\ setIRQ(c, 2, "PinRising", "cbA")
    \/ \E c \in Cores : intE[c] # {} /\ setIRQ(c, 5, "PinRising", "cbB")
    \/ \E c \in Cores : lockSpin(c)
    \/ \E c \in Cores : getCurrent(c)
    \/ \E c \in Cores : setVtableHandler(c)
    \/ \E c \in Cores : unlockClear(c)
    \/ \E c \in Cores : unlockRestore(c)
    \/ \E c \in Cores : irqSet(c)

SpecTwoPins == Init /\ [][NextTwoPins]_vars

\* registration on core 0, pin events and dispatch on the two cores
NextDispatch ==
    \/ \E p \in Pins, ch \in Changes, cb \in Callbacks : setIRQ(0, p, ch, cb)
    \/ lockSpin(0)
    \/ getCurrent(0)
    \/ setVtableHandler(0)
    \/ unlockClear(0)
    \/ unlockRestore(0)
    \/ irqSet(0)
    \/ \E c \in Cores, p \in GpioPins, e \in EventBits : pinEvent(c, p, e)
    \/ \E c \in Cores : gpioirqHandler(c)

SpecDispatch == InitBus /\ [][NextDispatch]_vars

\* each core registers pin 2 with cbA and then pin 5 with cbB; pin events;
\* the dispatcher entered by the interrupt it was registered for
NextRegister ==
    \/ \E c \in Cores : intE[c] = {} /\ setIRQ(c, 2, "PinRising", "cbA")
    \/ \E c \in Cores : intE[c] # {} /\ setIRQ(c, 5, "PinRising", "cbB")
    \/ \E c \in Cores : callStep(c)
    \/ \E c \in Cores, p \in Pins, e \in EventBits : pinEvent(c, p, e)
    \/ \E c \in Cores : gpioirqDelivered(c)

SpecRegister == Init /\ [][NextRegister]_vars

(***************************************************************************)
(* Properties.                                                             *)
(***************************************************************************)
\* a core is inside the installation critical section: lock() has returned
\* and unlock() has not yet cleared the register
InCS(c) == cpc[c] \in {"locked", "set", "unlock"}

\* tx or rx has returned, and it was given a valid address and a payload
\* that is not empty
TransferRan ==
    /\ ret.op \in {"tx", "rx"}
    /\ ret.err.kind # "pending"
    /\ ~addrRejected(addr)
    /\ Len(data) > 0

hasRestartBit(word) == (word \div Pow2(I2C0_IC_DATA_CMD_RESTART_Pos)) % 2 = 1
hasStopBit(word) == (word \div Pow2(I2C0_IC_DATA_CMD_STOP_Pos)) % 2 = 1
reserved16(a) == BitAnd(a, ReservedMask) \in {0, ReservedMask}

\* C1: at most one core is inside the vector-table installation critical
\* section at any instant.
C1_MutualExclusion ==
    \A c1 \in Cores, c2 \in Cores : (c1 # c2) => ~(InCS(c1) /\ InCS(c2))

\* C2: a slot that holds a handler is never written with a different one:
\* the call that finds a different handler installed halts and leaves it.
C2_NoSilentOverwrite ==
    [][\A n \in VtLines : vtable[n] # nil => vtable'[n] = vtable[n]]_vars

\* C3: a call that finds its own handler already installed does not halt;
\* it goes on to write the same handler again and returns.
C3_SameHandlerAccepted ==
    [][\A c \in Cores :
         (cpc[c] = "locked" /\ vtable[num[c]] = handler[c]) => cpc'[c] # "halted"]_vars

\* C4: after tx or rx with a valid address and a non-empty payload has
\* returned (success, abort or timeout), restartOnNext is its nostop.
C4_RestartOnNextIsNostop == TransferRan => (restartOnNext = nostop)

C4_Witness ==
    /\ TransferRan
    /\ ret.err = errI2CTimeout
    /\ nostop /\ ~restartOnEntry /\ restartOnNext

\* C5: the command word of byte i carries the restart bit iff i is the
\* first byte and restartOnNext was set on entry, and the stop bit iff i
\* is the last byte and nostop is false; and a call entered right after a
\* transfer enters with restartOnNext equal to that transfer's nostop.
C5_FramingBits ==
    \A i \in 1..Len(cmds) :
       /\ hasRestartBit(cmds[i].word) <=> (cmds[i].idx = 0 /\ restartOnEntry)
       /\ hasStopBit(cmds[i].word) <=> (cmds[i].idx = Len(data) - 1 /\ ~nostop)

C5_Framing ==
    /\ []C5_FramingBits
    /\ [][(TransferRan /\ pc' \in {"tx_loop", "rx_loop"})
            => (restartOnEntry' = nostop)]_vars

C5_Witness ==
    /\ Len(cmds) = 2
    /\ restartOnEntry
    /\ hasRestartBit(cmds[1].word) /\ ~hasStopBit(cmds[1].word)
    /\ ~hasRestartBit(cmds[2].word) /\ hasStopBit(cmds[2].word)

\* C6: once a call has observed an abort at byte index k it writes no
\* command word for a byte index above k.
C6_NoByteAfterAbort ==
    abortAt # NoIdx => \A i \in 1..Len(cmds) : cmds[i].idx <= abortAt

\* C7: an aborted call returns the generic error when the abort source has
\* the address-not-acknowledged bit, and otherwise the data error carrying
\* the byte index at which the abort was observed.
C7_AbortClassified ==
    (TransferRan /\ ret.err # errI2CTimeout /\ abortAt # NoIdx) =>
        IF BitAnd(abortSrc, I2C0_IC_TX_ABRT_SOURCE_ABRT_7B_ADDR_NOACK) # 0
        THEN ret.err = errI2CGeneric
        ELSE ret.err = makeI2CBuffError(abortAt)

\* C8: with a reserved address tx, rx and Tx (whatever its buffers) return
\* the invalid-address error, write no register and leave restartOnNext as
\* it was.
C8_ReservedRejected ==
    /\ (ret.op \in {"tx", "rx"} /\ ret.err.kind # "pending" /\ isReservedI2CAddr(addr))
          => /\ ret.err = errInvalidTgtAddr
             /\ regWrites = {}
             /\ restartOnNext = restartOnEntry
    /\ (ret.op = "Tx" /\ reserved16(pub.addr))
          => /\ ret.err = errInvalidTgtAddr
             /\ regWrites = {}
             /\ restartOnNext = pub.restartOnEntry

\* C9: Tx with an address of 0x80 or more and a buffer that is not empty
\* starts no transfer and returns the invalid-address error.
C9_WideAddressRejected ==
    (pub.addr >= AddrLimit /\ (Len(pub.w) > 0 \/ pub.rlen > 0)) =>
        /\ pc \notin {"tx_loop", "tx_pollEmpty", "tx_abrt", "tx_pollStop",
                      "rx_loop", "rx_poll", "rx_break"}
        /\ ret.op = "Tx" => (ret.err = errInvalidTgtAddr /\ regWrites = {})

\* C10: SetBaudrate(f) fails exactly when low or high lies outside
\* [8, register maximum] or hold exceeds low - 2, and otherwise succeeds and
\* programs high, low, max(1, low/16) and hold.
C10_SetBaudrate ==
    (ret.op = "SetBaudrate" /\ br > 0) =>
        LET period == (125000000 + br \div 2) \div br
            low    == (period * 3) \div 5
            high   == period - low
            hold   == IF br < 1000000 THEN 38 ELSE 16
            bad    == \/ low < 8 \/ low > 65535
                      \/ high < 8 \/ high > 65535
                      \/ hold > low - 2
        IN  /\ (ret.err = errInvalidI2CBaudrate) <=> bad
            /\ ~bad => /\ ret.err = errNil
                       /\ timing.hcnt = high
                       /\ timing.lcnt = low
                       /\ timing.spklen = (IF low \div 16 > 1 THEN low \div 16 ELSE 1)
                       /\ \/ timing.sdaHold % 65536 = hold
                          \/ (timing.sdaHold \div 65536) % 256 = hold

\* Configure has returned (a panic does not return)
ConfigureReturned == ret.op = "Configure" /\ pc = "idle"

\* C11: after Configure(f) returns the controller is enabled iff the call
\* succeeded; on success the counts programmed are the ones that passed the
\* range check, on the invalid-baudrate error the controller is disabled and
\* no timing register has been written.
C11_EnabledIffSuccess ==
    ConfigureReturned =>
        /\ ret.err \in {errNil, errInvalidI2CBaudrate}
        /\ (icEnable = 1) <=> (ret.err = errNil)
        /\ ret.err = errNil =>
             /\ timing.hcnt = hcntOf(br) /\ timing.lcnt = lcntOf(br)
             /\ timing.hcnt \in MinCnt..I2C0_IC_FS_SCL_HCNT_IC_FS_SCL_HCNT_Msk
             /\ timing.lcnt \in MinCnt..I2C0_IC_FS_SCL_LCNT_IC_FS_SCL_LCNT_Msk
        /\ ret.err = errInvalidI2CBaudrate =>
             /\ icEnable = 0
             /\ timing = ResetRegs.timing
             /\ regWrites \cap {"IC_FS_SCL_HCNT", "IC_FS_SCL_LCNT",
                                "IC_FS_SPKLEN", "IC_SDA_HOLD"} = {}

C11_Witness ==
    /\ ConfigureReturned
    /\ ret.err = errInvalidI2CBaudrate
    /\ lcntOf(br) < MinCnt
    /\ icEnable = 0

\* C12: for every frequency, 0 included, Configure and SetBaudrate return
\* success or the invalid-baudrate error and never panic.
C12_NoPanic ==
    ret.op \in {"Configure", "SetBaudrate"} =>
        /\ pc # "panic"
        /\ ret.err \in {errNil, errInvalidI2CBaudrate}

\* the pins with an event pending on core c
pendingOn(c) == {p \in GpioPins : intS[c][p] # 0}

\* this step is a run of the dispatcher on core c
dispatched(c) ==
    \/ disp'[c] # disp[c]
    \/ \E p \in GpioPins : intS'[c][p] < intS[c][p]

\* C13: a run of the dispatcher on a core with a callback and pins pending
\* acknowledges the lowest pending pin, calls the callback once for it and
\* returns; every other pin, on either core, stays as it was.
C13_OnePinPerDispatch ==
    [][\A c \in Cores :
         (dispatched(c) /\ pinCallbacks[c] # nil /\ pendingOn(c) # {}) =>
            LET low == CHOOSE p \in pendingOn(c) : \A q \in pendingOn(c) : p <= q
            IN  /\ disp'[c].pin = low
                /\ disp'[c].calls = 1
                /\ disp'[c].callback = pinCallbacks[c]
                /\ intS'[c][low] = 0
                /\ \A q \in GpioPins \ {low} : intS'[c][q] = intS[c][q]
                /\ \A d \in Cores \ {c} : intS'[d] = intS[d]
                /\ cpc'[c] = "idle"]_vars

C13_Witness ==
    /\ disp[0].pin = 5 /\ disp[0].calls = 1 /\ disp[0].callback = "cbA"
    /\ pendingOn(0) = {11}
    /\ pendingOn(1) = {2, 5}
    /\ cpc[0] = "idle"

\* C14: a tx or rx call given timeout 0, and so every Tx, never returns the
\* timeout error.
C14_NoTimeoutWhenOff ==
    /\ (ret.op \in {"tx", "rx"} /\ timeout = 0) => ret.err # errI2CTimeout
    /\ ret.op = "Tx" => ret.err # errI2CTimeout

\* C15: under Configure, SetBaudrate and Tx alone restartOnNext is never
\* set, so no command word of a Tx phase carries the restart bit and the
\* word of the last byte of a phase carries the stop bit.
C15_TxFreshStart ==
    /\ restartOnNext = FALSE
    /\ \A i \in 1..Len(cmds) :
         /\ ~hasRestartBit(cmds[i].word)
         /\ cmds[i].idx = Len(data) - 1 => hasStopBit(cmds[i].word)

C15_Witness ==
    /\ pc = "Tx_afterR" /\ ret.err = errNil
    /\ Len(pub.w) = 2 /\ pub.rlen = 2
    /\ Len(cmds) = 2
    /\ ~hasRestartBit(cmds[1].word)
    /\ hasStopBit(cmds[2].word)

\* C16: on a core that registers pin 2 with cbA and then pin 5 with cbB the
\* second registration does not halt; when it has returned the callback
\* slot holds cbB and both pins are enabled; a registration leaves the
\* enable bits already set and the callback slot of the other core alone.
C16_TwoRegistrations ==
    /\ [](\A c \in Cores :
            Cardinality(intE[c]) = 2 =>
               /\ cpc[c] # "halted"
               /\ cpc[c] = "idle" => pinCallbacks[c] = "cbB")
    /\ [][\A c \in Cores :
            (intE'[c] # intE[c]) =>
               /\ intE[c] \subseteq intE'[c]
               /\ \A d \in Cores \ {c} : pinCallbacks'[d] = pinCallbacks[d]]_vars

\* C17: tx or rx with a valid address and an empty payload returns success
\* at once: it never enters the byte loop, reads and writes no register and
\* leaves restartOnNext as it was.
C17_EmptyPayload ==
    (ret.op \in {"tx", "rx"} /\ ~addrRejected(addr) /\ Len(data) = 0) =>
        /\ pc = "idle"
        /\ ret.err = errNil
        /\ regWrites = {} /\ regReads = {}
        /\ restartOnNext = restartOnEntry

C17_Witness ==
    /\ ret = [op |-> "rx", err |-> errNil]
    /\ addr = 8 /\ Len(data) = 0
    /\ restartOnNext /\ icEnable = 1

\* a core is between interrupt.Disable() in lock() and interrupt.Restore()
\* in unlock()
InLockSection(c) == cpc[c] \in {"lock_spin", "locked", "set", "unlock", "restore"}

C19_WriteUnderLock ==
    \A c \in Cores : cpc[c] \in {"locked", "set"} => (spinlock /\ holder = c)

\* the registers written by the last irqSet of core c, in order
regsWritten(c) == [i \in 1..Len(nvicLog[c]) |-> nvicLog[c][i].reg]

\* C20: irqSet(num, true) with num < 32 writes the pending-clear register
\* and then the enable-set register, both with bit num alone;
\* irqSet(num, false) writes the enable-clear register and no other; with
\* num >= 32 irqSet writes no register.
C20_IrqSetOrder ==
    \A c \in Cores :
       /\ (cfn[c] \in {"irqSet_on", "irqSet_off"} /\ num[c] >= _NUMIRQ)
              => nvicLog[c] = <<>>
       /\ (cfn[c] = "irqSet_on" /\ num[c] < _NUMIRQ)
              => /\ regsWritten(c) = <<"NVIC_ICPR", "NVIC_ISER">>
                 /\ \A i \in 1..2 : nvicLog[c][i].mask = {num[c]}
       /\ (cfn[c] = "irqSet_off" /\ num[c] < _NUMIRQ)
              => /\ regsWritten(c) = <<"NVIC_ICER">>
                 /\ nvicLog[c][1].mask = {num[c]}

C20_Witness ==
    /\ cfn[0] = "irqSet_on" /\ num[0] = _NUMIRQ - 1
    /\ regsWritten(0) = <<"NVIC_ICPR", "NVIC_ISER">>
    /\ cfn[1] = "irqSet_off" /\ num[1] = IRQ_IO_IRQ_BANK0
    /\ regsWritten(1) = <<"NVIC_ICER">>

\* this step is a run of the dispatcher on core c, fatal or not
dispatcherRan(c) ==
    \/ dispatched(c)
    \/ cpc[c] = "idle" /\ cpc'[c] = "halted"

\* C21: a run of the dispatcher halts the core, the callback not called,
\* exactly when no pin is pending on the core or the core's callback slot
\* is empty; every other run calls the callback once and returns.
C21_FatalCases ==
    [][\A c \in Cores :
         dispatcherRan(c) =>
            IF pendingOn(c) = {} \/ pinCallbacks[c] = nil
            THEN cpc'[c] = "halted" /\ disp'[c].calls = 0
            ELSE cpc'[c] = "idle" /\ disp'[c].calls = 1]_vars

C21_Witness ==
    /\ cpc[0] = "halted" /\ cfn[0] = "none" /\ pinCallbacks[0] # nil
    /\ pendingOn(0) = {} /\ disp[0] = NoDisp
    /\ cpc[1] = "halted" /\ pinCallbacks[1] = nil
    /\ disp[1].pin = 2 /\ disp[1].calls = 0

\* the call of core c has ended: it returned, or it halted the core
callEnded(c) == cpc[c] \in {"idle", "halted"}

\* every call that waits in lock() ends
callsTerminate ==
    \A c \in Cores : (cpc[c] = "lock_spin") ~> callEnded(c)

\* C22: under fair scheduling every call that waits in lock() ends, by a
\* return or by a halt of its core, and at no time is the spinlock held by
\* a core whose call has ended.
C22_CallsEnd ==
    /\ [](\A c \in Cores : callEnded(c) => ~(spinlock /\ holder = c))
    /\ callsTerminate

\* the NVIC of core c can enter the dispatcher: the GPIO line is enabled on
\* the core and its vector-table slot holds the dispatcher
deliverable(c) ==
    /\ IRQ_IO_IRQ_BANK0 \in nvicEnabled[c]
    /\ vtable[IRQ_IO_IRQ_BANK0] = "gpioirqHandler"

\* C23: with registrations and interrupt deliveries alone, a core whose NVIC
\* can enter the dispatcher has a callback in its slot, and every run of
\* the dispatcher that found a pending pin called a callback: the
\* missing-callback halt is never taken.
C23_CallbackBeforeDispatch ==
    \A c \in Cores :
       /\ deliverable(c) => pinCallbacks[c] # nil
       /\ disp[c].pin # NoIdx => (disp[c].calls = 1 /\ disp[c].callback # nil)

C23_Witness ==
    /\ disp[0].pin = 2 /\ disp[0].calls = 1 /\ disp[0].callback = "cbA"
    /\ disp[1].pin = 5 /\ disp[1].calls = 1 /\ disp[1].callback = "cbA"
    /\ cpc[0] = "idle" /\ cpc[1] = "idle"

=============================================================================
